---- MODULE Spec2Model ----
(***************************************************************************)
(* Model of pybinding/chebyshev.py: the KernelPolynomialMethod wrapper,    *)
(* the factory functions kpm and kpm_cuda, and the engine object (the      *)
(* extension module's KPM / KPMcuda classes) the wrapper delegates to.     *)
(*                                                                         *)
(* Python values are tagged records so that None, tuples, arrays and       *)
(* objects stay distinguishable: PyNone, PyTuple(<<..>>), ...              *)
(* Numeric results are symbolic terms (GreensTerm): a result is identified *)
(* by everything it is computed from, so two results are equal only when   *)
(* operator, bounds, indices, energy, broadening, lambda and optimization  *)
(* level all agree.                                                        *)
(***************************************************************************)
EXTENDS Integers, Sequences, FiniteSets, TLC

VARIABLES
    hasCuda,    \* the extension module defines KPMcuda (fixed per build)
    engine,     \* the KernelPolynomialMethod object the program holds, or NoEngine
    built,      \* history: the factory call that built `engine`
    last,       \* the most recent call: its name, arguments and outcome
    units,      \* the Deferred units handed out by deferred_ldos
    issued,     \* history: the requests passed to deferred_ldos, in call order
    cancelled,  \* the dispatcher was cancelled
    completed   \* ids of the finished units, in completion order

vars == <<hasCuda, engine, built, last, units, issued, cancelled, completed>>

---------------------------------------------------------------------------
(* Bounds of the model *)

MaxEnergyLen == 2
MaxUnits == 2

(* Defaults of the factory functions *)

DefaultLambda == 4
DefaultOptKpm == 3
DefaultOptCuda == 1
DefaultLanczosPrecision == 2

---------------------------------------------------------------------------
(* Python values *)

PyNone == [t |-> "None"]

PyTuple(s) == [t |-> "tuple", v |-> s]

\* bool(x) for None and tuples: None and the empty tuple are falsy
Truthy(x) == IF x.t = "None" THEN FALSE ELSE Len(x.v) > 0

\* a or b
PyOr(a, b) == IF Truthy(a) THEN a ELSE b

NoEngine == [t |-> "NoEngine"]

NoImpl == [backend |-> "none"]

NoCudaMessage == "Exception: The module was compiled without CUDA support."

---------------------------------------------------------------------------
(* The collaborators: models, their systems and spectra *)

GoodModels == {"m1", "m2"}

Models == GoodModels \cup {"m_attr", "m_type"}

\* the error evaluating the model raises inside the extension module
ModelFault(m) ==
    CASE m = "m_attr" -> "AttributeError"
      [] m = "m_type" -> "TypeError"
      [] OTHER -> ""

\* site positions (one coordinate) and sublattices, by Hamiltonian index - 1
SitePositions(m) == IF m = "m1" THEN <<0>> ELSE <<0, 2>>

SiteSublattices(m) == IF m = "m1" THEN <<"A">> ELSE <<"A", "B">>

\* N, the dimension of the Hamiltonian
Dim(m) == Len(SitePositions(m))

\* what the Lanczos procedure finds for the operator of model m
LanczosBounds(m) == IF m = "m1" THEN <<-3, 3>> ELSE <<-2, 4>>

Abs(x) == IF x < 0 THEN -x ELSE x

\* sites of m the sublattice filter keeps ("" keeps all), as 0-based indices
MatchingSites(m, sublattice) ==
    {s \in 0..(Dim(m) - 1) :
        sublattice = "" \/ SiteSublattices(m)[s + 1] = sublattice}

\* the 0-based index of the matching site closest to position; -1 if none matches
FindNearest(m, position, sublattice) ==
    LET S == MatchingSites(m, sublattice)
        d(s) == Abs(SitePositions(m)[s + 1] - position)
    IN IF S = {} THEN -1
       ELSE CHOOSE s \in S : \A u \in S : d(s) < d(u) \/ (d(s) = d(u) /\ s <= u)

---------------------------------------------------------------------------
(* The engine object behind the wrapper (self.impl) *)

EmptyReport == [kind |-> "none", moments |-> 0, optimization_level |-> 0, bounds |-> <<>>]

\* the pair a factory hands over when the caller gave no energy_range
AutoBounds == <<0, 0>>

\* KPM(model, lambda_value, energy_range, optimization_level, lanczos_precision)
cpp_KPM(model, lambda_value, energy_range, optimization_level, lanczos_precision) ==
    IF ModelFault(model) # ""
    THEN [raised |-> ModelFault(model), obj |-> NoImpl]
    ELSE IF energy_range.t # "tuple" \/ Len(energy_range.v) # 2
    THEN [raised |-> "TypeError", obj |-> NoImpl]
    ELSE [raised |-> "",
          obj |-> [backend |-> "cpu",
                   model |-> model,
                   lambda_value |-> lambda_value,
                   energy_range |-> energy_range.v,
                   optimization_level |-> optimization_level,
                   lanczos_precision |-> lanczos_precision,
                   bounds_cache |-> <<>>,
                   n_lanczos |-> 0,
                   last_report |-> EmptyReport]]

\* KPMcuda(model, lambda_value, energy_range, optimization_level)
cpp_KPMcuda(model, lambda_value, energy_range, optimization_level) ==
    LET r == cpp_KPM(model, lambda_value, energy_range, optimization_level,
                     DefaultLanczosPrecision)
    IN IF r.raised # "" THEN r
       ELSE [r EXCEPT !.obj.backend = "cuda"]

\* the engine was built without caller bounds: it estimates them itself
EstimatesBounds(impl) == impl.energy_range = AutoBounds

\* the engine with its spectral bounds available: the caller's pair, or the
\* Lanczos estimate, which is computed when no estimate is cached and then kept
WithBounds(impl) ==
    IF EstimatesBounds(impl) /\ impl.bounds_cache = <<>>
    THEN [impl EXCEPT !.bounds_cache = LanczosBounds(impl.model),
                      !.n_lanczos = @ + 1]
    ELSE impl

BoundsOf(impl) ==
    IF EstimatesBounds(impl) THEN impl.bounds_cache ELSE impl.energy_range

\* number of moments: lambda * a / broadening with a = (E_max - E_min) / 2
NumMoments(impl, broadening) ==
    LET b == BoundsOf(impl)
    IN (impl.lambda_value * (b[2] - b[1])) \div (2 * broadening)

\* the value of <i| G(e) |j> as a term over everything it is computed from
GreensTerm(kind, impl, i, j, e, broadening) ==
    [f |-> kind, model |-> impl.model, bounds |-> BoundsOf(impl), i |-> i, j |-> j,
     e |-> e, broadening |-> broadening, lambda_value |-> impl.lambda_value,
     optimization_level |-> impl.optimization_level]

StatsOf(kind, impl, broadening) ==
    [kind |-> kind, moments |-> NumMoments(impl, broadening),
     optimization_level |-> impl.optimization_level, bounds |-> BoundsOf(impl)]

IndexInRange(impl, i) == 0 <= i /\ i < Dim(impl.model)

\* calc_greens adding the new moment count to the one already reported
impl_calc_greens_accumulates(impl, i, j, energy, broadening) ==
    IF ~(IndexInRange(impl, i) /\ IndexInRange(impl, j))
    THEN [impl |-> impl, raised |-> "InvalidIndex", values |-> <<>>]
    ELSE LET b == WithBounds(impl)
         IN [impl |-> [b EXCEPT !.last_report =
                          [StatsOf("greens", b, broadening) EXCEPT
                              !.moments = @ + impl.last_report.moments]],
             raised |-> "",
             values |-> [k \in 1..Len(energy) |->
                            GreensTerm("greens", b, i, j, energy[k], broadening)]]

\* impl.calc_greens(i, j, energy, broadening)
impl_calc_greens(impl, i, j, energy, broadening) ==
    IF ~(IndexInRange(impl, i) /\ IndexInRange(impl, j))
    THEN [impl |-> impl, raised |-> "InvalidIndex", values |-> <<>>]
    ELSE LET b == WithBounds(impl)
         IN [impl |-> [b EXCEPT !.last_report = StatsOf("greens", b, broadening)],
             raised |-> "",
             values |-> [k \in 1..Len(energy) |->
                            GreensTerm("greens", b, i, j, energy[k], broadening)]]

\* impl.calc_ldos(energy, broadening, position, sublattice)
impl_calc_ldos(impl, energy, broadening, position, sublattice) ==
    LET site == FindNearest(impl.model, position, sublattice)
    IN IF site < 0
       THEN [impl |-> impl, raised |-> "NoMatchingSite", values |-> <<>>]
       ELSE LET b == WithBounds(impl)
            IN [impl |-> [b EXCEPT !.last_report = StatsOf("ldos", b, broadening)],
                raised |-> "",
                values |-> [k \in 1..Len(energy) |->
                               GreensTerm("ldos", b, site, site, energy[k], broadening)]]

\* impl.report(shortform): the text, as the form and the numbers printed
impl_report(impl, shortform) ==
    LET r == impl.last_report
    IN IF r.kind = "none" THEN [t |-> "text", form |-> "empty", fields |-> <<>>]
       ELSE IF shortform
       THEN [t |-> "text", form |-> "short", fields |-> <<r.moments>>]
       ELSE [t |-> "text", form |-> "long",
             fields |-> <<r.moments, r.optimization_level, r.bounds[1], r.bounds[2]>>]

\* impl.model = model
impl_set_model(impl, model) ==
    IF ModelFault(model) # ""
    THEN [impl |-> impl, raised |-> ModelFault(model)]
    ELSE [impl |-> [impl EXCEPT !.model = model, !.bounds_cache = <<>>, !.n_lanczos = 0],
          raised |-> ""]

\* impl.deferred_ldos(energy, broadening, position, sublattice): the bounds are
\* made available once, at the call, and the unit carries its own copy of what
\* it reads
impl_deferred_ldos(impl, energy, broadening, position, sublattice) ==
    LET b == WithBounds(impl)
    IN [impl |-> b,
        unit |-> [energy |-> energy, broadening |-> broadening,
                  position |-> position, sublattice |-> sublattice,
                  snapshot |-> [b EXCEPT !.last_report = EmptyReport],
                  status |-> "pending", partial |-> <<>>,
                  result |-> <<>>, error |-> "", report |-> EmptyReport]]

---------------------------------------------------------------------------
(* Inputs *)

\* an energy array: n evenly spaced energies starting at e0
Linspace(e0, n) == [k \in 1..n |-> e0 + (k - 1)]

EnergyArrays == {Linspace(e0, n) : e0 \in {-1, 0}, n \in 0..MaxEnergyLen}

\* the single-energy request the life-cycle specification computes with
ProbeEnergy == {Linspace(0, 1)}

Broadenings == {1, 2}

\* from one below the first index to one past the last index of the largest model
Indices == -1..Dim("m2")

Positions == {1, 2}

Sublattices == {"", "B", "C"}

EnergyRanges ==
    {PyNone, PyTuple(<<>>), PyTuple(<<0, 0>>), PyTuple(<<-5, 5>>)}

---------------------------------------------------------------------------
(* results.LDOS(energy, ldos) *)

LDOS(energy, ldos) == [t |-> "LDOS", energy |-> energy, ldos |-> ldos]

(* KernelPolynomialMethod(impl) *)

KernelPolynomialMethod(impl) == [t |-> "KernelPolynomialMethod", impl |-> impl]

Returned(op, args, ret) == [op |-> op, args |-> args, ret |-> ret, raised |-> ""]

Raised(op, args, exc) == [op |-> op, args |-> args, ret |-> PyNone, raised |-> exc]

---------------------------------------------------------------------------
(* The factory functions *)

kpm(model, lambda_value, energy_range, optimization_level, lanczos_precision) ==
    LET args == [model |-> model, lambda_value |-> lambda_value,
                 energy_range |-> energy_range,
                 optimization_level |-> optimization_level]
        r == cpp_KPM(model, lambda_value, PyOr(energy_range, PyTuple(AutoBounds)),
                     optimization_level, lanczos_precision)
    IN /\ IF r.raised = ""
          THEN /\ engine' = KernelPolynomialMethod(r.obj)
               /\ built' = [fn |-> "kpm", model |-> model, energy_range |-> energy_range]
               /\ last' = Returned("kpm", args, [t |-> "KernelPolynomialMethod"])
          ELSE /\ last' = Raised("kpm", args, r.raised)
               /\ UNCHANGED <<engine, built>>
       /\ UNCHANGED <<hasCuda, units, cancelled, completed, issued>>

\* kpm_cuda with the missing class answered by a CPU engine instead of an error
kpm_cuda_falls_back(model, lambda_value, energy_range, optimization_level) ==
    LET args == [model |-> model, lambda_value |-> lambda_value,
                 energy_range |-> energy_range,
                 optimization_level |-> optimization_level]
        handed == PyOr(energy_range, PyTuple(AutoBounds))
        r == IF hasCuda
             THEN cpp_KPMcuda(model, lambda_value, handed, optimization_level)
             ELSE cpp_KPM(model, lambda_value, handed, optimization_level,
                          DefaultLanczosPrecision)
    IN /\ IF r.raised = ""
          THEN /\ engine' = KernelPolynomialMethod(r.obj)
               /\ built' = [fn |-> "kpm_cuda", model |-> model, energy_range |-> energy_range]
               /\ last' = Returned("kpm_cuda", args, [t |-> "KernelPolynomialMethod"])
          ELSE /\ last' = Raised("kpm_cuda", args,
                                 IF r.raised = "AttributeError" THEN NoCudaMessage
                                 ELSE r.raised)
               /\ UNCHANGED <<engine, built>>
       /\ UNCHANGED <<hasCuda, units, cancelled, completed, issued>>

kpm_cuda(model, lambda_value, energy_range, optimization_level) ==
    LET args == [model |-> model, lambda_value |-> lambda_value,
                 energy_range |-> energy_range,
                 optimization_level |-> optimization_level]
        \* _cpp.KPMcuda: an AttributeError when the module has no such class
        r == IF hasCuda
             THEN cpp_KPMcuda(model, lambda_value,
                              PyOr(energy_range, PyTuple(AutoBounds)), optimization_level)
             ELSE [raised |-> "AttributeError", obj |-> NoImpl]
    IN /\ IF r.raised = ""
          THEN /\ engine' = KernelPolynomialMethod(r.obj)
               /\ built' = [fn |-> "kpm_cuda", model |-> model, energy_range |-> energy_range]
               /\ last' = Returned("kpm_cuda", args, [t |-> "KernelPolynomialMethod"])
          ELSE /\ last' = Raised("kpm_cuda", args,
                                 IF r.raised = "AttributeError" THEN NoCudaMessage
                                 ELSE r.raised)
               /\ UNCHANGED <<engine, built>>
       /\ UNCHANGED <<hasCuda, units, cancelled, completed, issued>>

---------------------------------------------------------------------------
(* The methods of KernelPolynomialMethod *)

\* the model property
model_getter ==
    /\ engine # NoEngine
    /\ last' = Returned("model", [self |-> "kpm"], [t |-> "Model", name |-> engine.impl.model])
    /\ UNCHANGED <<hasCuda, engine, built, units, cancelled, completed, issued>>

\* the setter keeping the new model on the wrapper, the engine never told
model_setter_not_forwarded(model) ==
    /\ engine # NoEngine
    /\ last' = Returned("model.setter", [model |-> model], PyNone)
    /\ UNCHANGED <<hasCuda, engine, built, units, cancelled, completed, issued>>

\* the model property's setter
model_setter(model) ==
    /\ engine # NoEngine
    /\ LET r == impl_set_model(engine.impl, model)
       IN /\ engine' = [engine EXCEPT !.impl = r.impl]
          /\ last' = IF r.raised = "" THEN Returned("model.setter", [model |-> model], PyNone)
                     ELSE Raised("model.setter", [model |-> model], r.raised)
    /\ UNCHANGED <<hasCuda, built, units, cancelled, completed, issued>>

report(shortform) ==
    /\ engine # NoEngine
    /\ last' = Returned("report", [shortform |-> shortform],
                        impl_report(engine.impl, shortform))
    /\ UNCHANGED <<hasCuda, engine, built, units, cancelled, completed, issued>>

\* calc_greens taking i and j as one-based
calc_greens_one_based(i, j, energy, broadening) ==
    /\ engine # NoEngine
    /\ LET args == [i |-> i, j |-> j, energy |-> energy, broadening |-> broadening]
           r == impl_calc_greens(engine.impl, i - 1, j - 1, energy, broadening)
       IN /\ engine' = [engine EXCEPT !.impl = r.impl]
          /\ last' = IF r.raised = ""
                     THEN Returned("calc_greens", args, [t |-> "array", values |-> r.values])
                     ELSE Raised("calc_greens", args, r.raised)
    /\ UNCHANGED <<hasCuda, built, units, cancelled, completed, issued>>

calc_greens(i, j, energy, broadening) ==
    /\ engine # NoEngine
    /\ LET args == [i |-> i, j |-> j, energy |-> energy, broadening |-> broadening]
           r == impl_calc_greens(engine.impl, i, j, energy, broadening)
       IN /\ engine' = [engine EXCEPT !.impl = r.impl]
          /\ last' = IF r.raised = ""
                     THEN Returned("calc_greens", args, [t |-> "array", values |-> r.values])
                     ELSE Raised("calc_greens", args, r.raised)
    /\ UNCHANGED <<hasCuda, built, units, cancelled, completed, issued>>

\* __call__(*args, **kwargs)
call(i, j, energy, broadening) == calc_greens(i, j, energy, broadening)

\* calc_ldos asking the engine for the first energy only
calc_ldos_first_energy(energy, broadening, position, sublattice) ==
    /\ engine # NoEngine
    /\ LET args == [energy |-> energy, broadening |-> broadening,
                    position |-> position, sublattice |-> sublattice]
           r == impl_calc_ldos(engine.impl,
                               IF energy = <<>> THEN energy ELSE <<energy[1]>>,
                               broadening, position, sublattice)
       IN /\ engine' = [engine EXCEPT !.impl = r.impl]
          /\ last' = IF r.raised = ""
                     THEN Returned("calc_ldos", args, LDOS(energy, r.values))
                     ELSE Raised("calc_ldos", args, r.raised)
    /\ UNCHANGED <<hasCuda, built, units, cancelled, completed, issued>>

calc_ldos(energy, broadening, position, sublattice) ==
    /\ engine # NoEngine
    /\ LET args == [energy |-> energy, broadening |-> broadening,
                    position |-> position, sublattice |-> sublattice]
           r == impl_calc_ldos(engine.impl, energy, broadening, position, sublattice)
       IN /\ engine' = [engine EXCEPT !.impl = r.impl]
          /\ last' = IF r.raised = ""
                     THEN Returned("calc_ldos", args, LDOS(energy, r.values))
                     ELSE Raised("calc_ldos", args, r.raised)
    /\ UNCHANGED <<hasCuda, built, units, cancelled, completed, issued>>

\* deferred_ldos leaving the sublattice at the engine's default
deferred_ldos_default_sublattice(energy, broadening, position, sublattice) ==
    /\ engine # NoEngine
    /\ ~cancelled
    /\ Len(units) < MaxUnits
    /\ LET args == [energy |-> energy, broadening |-> broadening,
                    position |-> position, sublattice |-> sublattice]
           r == impl_deferred_ldos(engine.impl, energy, broadening, position, "")
       IN /\ engine' = [engine EXCEPT !.impl = r.impl]
          /\ units' = Append(units, r.unit)
          /\ issued' = Append(issued, args)
          /\ last' = Returned("deferred_ldos", args, [t |-> "Deferred", id |-> Len(units) + 1])
    /\ UNCHANGED <<hasCuda, built, cancelled, completed>>

deferred_ldos(energy, broadening, position, sublattice) ==
    /\ engine # NoEngine
    /\ ~cancelled
    /\ Len(units) < MaxUnits
    /\ LET args == [energy |-> energy, broadening |-> broadening,
                    position |-> position, sublattice |-> sublattice]
           r == impl_deferred_ldos(engine.impl, energy, broadening, position, sublattice)
       IN /\ engine' = [engine EXCEPT !.impl = r.impl]
          /\ units' = Append(units, r.unit)
          /\ issued' = Append(issued, args)
          /\ last' = Returned("deferred_ldos", args, [t |-> "Deferred", id |-> Len(units) + 1])
    /\ UNCHANGED <<hasCuda, built, cancelled, completed>>

---------------------------------------------------------------------------
(* The deferred units and their dispatcher *)

UnitSite(u) == FindNearest(u.snapshot.model, u.position, u.sublattice)

\* a worker takes a pending unit; the unit fails at once when no site matches
UnitStart(k) ==
    /\ k \in 1..Len(units)
    /\ units[k].status = "pending"
    /\ IF UnitSite(units[k]) < 0
       THEN /\ units' = [units EXCEPT ![k].status = "failed", ![k].error = "NoMatchingSite"]
            /\ completed' = Append(completed, k)
       ELSE /\ units' = [units EXCEPT ![k].status = "running"]
            /\ UNCHANGED completed
    /\ UNCHANGED <<hasCuda, engine, built, last, cancelled, issued>>

\* a running unit computes the value at its next energy
UnitStep(k) ==
    /\ k \in 1..Len(units)
    /\ units[k].status = "running"
    /\ Len(units[k].partial) < Len(units[k].energy)
    /\ LET u == units[k]
           e == u.energy[Len(u.partial) + 1]
       IN units' = [units EXCEPT ![k].partial =
                       Append(@, GreensTerm("ldos", u.snapshot, UnitSite(u), UnitSite(u),
                                            e, u.broadening))]
    /\ UNCHANGED <<hasCuda, engine, built, last, cancelled, completed, issued>>

\* a completing unit writing its statistics into the engine's last report
UnitComplete_writes_engine_report(k) ==
    /\ k \in 1..Len(units)
    /\ units[k].status = "running"
    /\ Len(units[k].partial) = Len(units[k].energy)
    /\ units' = [units EXCEPT ![k].status = "done",
                              ![k].result = units[k].partial,
                              ![k].report = StatsOf("ldos", units[k].snapshot,
                                                    units[k].broadening)]
    /\ engine' = [engine EXCEPT !.impl.last_report =
                      StatsOf("ldos", units[k].snapshot, units[k].broadening)]
    /\ completed' = Append(completed, k)
    /\ UNCHANGED <<hasCuda, built, last, cancelled, issued>>

\* a running unit that has all its values completes
UnitComplete(k) ==
    /\ k \in 1..Len(units)
    /\ units[k].status = "running"
    /\ Len(units[k].partial) = Len(units[k].energy)
    /\ units' = [units EXCEPT ![k].status = "done",
                              ![k].result = units[k].partial,
                              ![k].report = StatsOf("ldos", units[k].snapshot,
                                                    units[k].broadening)]
    /\ completed' = Append(completed, k)
    /\ UNCHANGED <<hasCuda, engine, built, last, cancelled, issued>>

\* cancelling the dispatcher drops the units no worker has taken
Cancel ==
    /\ ~cancelled
    /\ cancelled' = TRUE
    /\ units' = [k \in 1..Len(units) |->
                    IF units[k].status = "pending"
                    THEN [units[k] EXCEPT !.status = "dropped"]
                    ELSE units[k]]
    /\ UNCHANGED <<hasCuda, engine, built, last, completed, issued>>

---------------------------------------------------------------------------
(* The program: factory calls and method calls, one at a time *)

NoCall == [op |-> "none", args |-> [self |-> "none"], ret |-> PyNone, raised |-> ""]

NotBuilt == [fn |-> "none", model |-> "", energy_range |-> PyNone]

Init ==
    /\ hasCuda \in BOOLEAN
    /\ engine = NoEngine
    /\ built = NotBuilt
    /\ last = NoCall
    /\ units = <<>>
    /\ issued = <<>>
    /\ cancelled = FALSE
    /\ completed = <<>>

\* The life cycle of an engine: built, its model replaced, computed with
\* (single-energy requests), reported on
Next ==
    \/ \E m \in Models, er \in EnergyRanges :
          kpm(m, DefaultLambda, er, DefaultOptKpm, DefaultLanczosPrecision)
    \/ \E m \in Models, er \in EnergyRanges :
          kpm_cuda(m, DefaultLambda, er, DefaultOptCuda)
    \/ model_getter
    \/ \E m \in Models : model_setter(m)
    \/ \E s \in BOOLEAN : report(s)
    \/ \E i \in {0, 1}, e \in ProbeEnergy, b \in Broadenings : calc_greens(i, 0, e, b)
    \/ \E e \in ProbeEnergy, b \in Broadenings, p \in Positions : calc_ldos(e, b, p, "")

Spec == Init /\ [][Next]_vars

\* The engines kpm builds for the models, without and with caller bounds
KpmEngines ==
    {[engine |-> KernelPolynomialMethod(
                    cpp_KPM(m, DefaultLambda, PyOr(er, PyTuple(AutoBounds)),
                            DefaultOptKpm, DefaultLanczosPrecision).obj),
      built |-> [fn |-> "kpm", model |-> m, energy_range |-> er]] :
        m \in GoodModels, er \in {PyNone, PyTuple(<<-5, 5>>)}}

InitBuilt ==
    /\ hasCuda = FALSE
    /\ \E k \in KpmEngines : engine = k.engine /\ built = k.built
    /\ last = NoCall
    /\ units = <<>>
    /\ issued = <<>>
    /\ cancelled = FALSE
    /\ completed = <<>>

\* Computations on one engine, over all the inputs
NextCalc ==
    \/ \E s \in BOOLEAN : report(s)
    \/ \E i, j \in Indices, e \in EnergyArrays, b \in Broadenings : calc_greens(i, j, e, b)
    \/ \E i, j \in Indices, e \in EnergyArrays, b \in Broadenings : call(i, j, e, b)
    \/ \E e \in EnergyArrays, b \in Broadenings, p \in Positions, s \in Sublattices :
          calc_ldos(e, b, p, s)

SpecCalc == InitBuilt /\ [][NextCalc]_vars

\* the deferred requests ask for the two longest energy arrays
DeferredEnergyArrays == {Linspace(0, n) : n \in (MaxEnergyLen - 1)..MaxEnergyLen}

\* Deferred requests on one engine, their units run by workers in any order
NextDeferred ==
    \/ \E e \in DeferredEnergyArrays, p \in Positions, s \in Sublattices :
          deferred_ldos(e, 1, p, s)
    \/ \E k \in 1..MaxUnits : UnitStart(k)
    \/ \E k \in 1..MaxUnits : UnitStep(k)
    \/ \E k \in 1..MaxUnits : UnitComplete(k)
    \/ Cancel

SpecDeferred == InitBuilt /\ [][NextDeferred]_vars

---------------------------------------------------------------------------
(* Properties of the factory functions *)

IsFactoryCall(c) == c.op \in {"kpm", "kpm_cuda"}

IsPair(x) == x.t = "tuple" /\ Len(x.v) = 2

\* C1: when the extension module has no KPMcuda, every kpm_cuda call ends in the
\* "compiled without CUDA support" error (the unsupported-backend error): nothing
\* is returned, and the engine the program holds and the record of how it was
\* built are what they were before the call, so no engine, CPU or partial, is
\* created by the call.
C1_NoCudaAlwaysFails ==
    [][(/\ ~hasCuda
        /\ last'.op = "kpm_cuda"
        /\ kpm_cuda(last'.args.model, last'.args.lambda_value,
                    last'.args.energy_range, last'.args.optimization_level))
       => (/\ last'.raised = NoCudaMessage
           /\ last'.ret = PyNone
           /\ engine' = engine
           /\ built' = built)]_vars

\* a kpm_cuda call failed for want of CUDA while the program held a CPU engine
C1_Witness ==
    /\ ~hasCuda
    /\ last.op = "kpm_cuda"
    /\ last.raised = NoCudaMessage
    /\ engine # NoEngine
    /\ built.fn = "kpm"

\* C2: an engine built with a (min, max) pair has exactly that pair as its bounds
\* and never runs the Lanczos estimate; an engine built with energy_range None
\* estimates its bounds.
C2_PairSkipsLanczos ==
    engine # NoEngine =>
        /\ IsPair(built.energy_range) =>
              /\ engine.impl.energy_range = built.energy_range.v
              /\ engine.impl.n_lanczos = 0
              /\ engine.impl.bounds_cache = <<>>
        /\ built.energy_range.t = "None" => EstimatesBounds(engine.impl)

\* C9: kpm_cuda reports missing CUDA support only when the extension module has
\* no KPMcuda.
C9_NoCudaMessageOnlyWithoutCuda ==
    (last.op = "kpm_cuda" /\ last.raised = NoCudaMessage) => ~hasCuda

\* C10: the pair handed to the engine constructor is (0, 0) exactly when the
\* caller's energy_range is None, and is the caller's own value otherwise.
C10_AutoBoundsOnlyForNone ==
    (IsFactoryCall(last) /\ last.raised = "") =>
        LET er == last.args.energy_range
            handed == engine.impl.energy_range
        IN /\ (handed = AutoBounds) <=> (er.t = "None")
           /\ er.t = "tuple" => handed = er.v

---------------------------------------------------------------------------
(* Properties of the spectral bounds *)

Computed(c) == c.op \in {"calc_greens", "calc_ldos"} /\ c.raised = ""

ValuesOf(c) == IF c.op = "calc_ldos" THEN c.ret.ldos ELSE c.ret.values

\* C4: the Lanczos estimate is run at most once for an operator, and a cached
\* estimate is the estimate of the engine's current operator; setting the model
\* puts the new operator in the engine and leaves no cached estimate, so a
\* computation of an estimating engine reports and uses the estimate of the
\* operator it has now.
C4_BoundsFollowOperator ==
    engine # NoEngine =>
        LET impl == engine.impl
        IN /\ impl.n_lanczos <= 1
           /\ impl.bounds_cache # <<>> =>
                 /\ impl.bounds_cache = LanczosBounds(impl.model)
                 /\ impl.n_lanczos = 1
           /\ (last.op = "model.setter" /\ last.raised = "") =>
                 /\ impl.model = last.args.model
                 /\ impl.bounds_cache = <<>>
           /\ (Computed(last) /\ EstimatesBounds(impl)) =>
                 /\ impl.last_report.bounds = LanczosBounds(impl.model)
                 /\ \A k \in 1..Len(ValuesOf(last)) :
                       ValuesOf(last)[k].bounds = LanczosBounds(impl.model)

\* an estimating engine whose model was replaced has computed with the estimate
\* of the new operator, which differs from that of the operator it was built with
C4_Witness ==
    /\ engine # NoEngine
    /\ built.model # engine.impl.model
    /\ LanczosBounds(built.model) # LanczosBounds(engine.impl.model)
    /\ EstimatesBounds(engine.impl)
    /\ Computed(last)
    /\ Len(ValuesOf(last)) > 0
    /\ engine.impl.last_report.bounds = LanczosBounds(engine.impl.model)

---------------------------------------------------------------------------
(* Properties of the computations and their report *)

\* the statistics of a computation of the given kind the engine has just made
ExpectedReport(kind, impl, broadening) ==
    [kind |-> kind,
     moments |-> (impl.lambda_value * (BoundsOf(impl)[2] - BoundsOf(impl)[1]))
                    \div (2 * broadening),
     optimization_level |-> impl.optimization_level,
     bounds |-> BoundsOf(impl)]

\* C5: a completed calc_greens or calc_ldos call leaves as the report the
\* statistics of that call alone, whatever the report was before; a call that
\* raises leaves the report as it was; report(shortform) returns the numbers of
\* that report and changes nothing of the engine or the units.
C5_ReportIsLastComputation ==
    [][LET a == last'.args
       IN /\ (last'.op = "report" /\ report(a.shortform)) =>
                /\ engine' = engine
                /\ units' = units
                /\ IF engine.impl.last_report.kind = "none"
                   THEN last'.ret.fields = <<>>
                   ELSE last'.ret.fields[1] = engine.impl.last_report.moments
          /\ (last'.op = "calc_greens"
                /\ calc_greens(a.i, a.j, a.energy, a.broadening)) =>
                IF last'.raised = ""
                THEN engine'.impl.last_report =
                        ExpectedReport("greens", engine'.impl, a.broadening)
                ELSE engine'.impl.last_report = engine.impl.last_report
          /\ (last'.op = "calc_ldos"
                /\ calc_ldos(a.energy, a.broadening, a.position, a.sublattice)) =>
                IF last'.raised = ""
                THEN engine'.impl.last_report =
                        ExpectedReport("ldos", engine'.impl, a.broadening)
                ELSE engine'.impl.last_report = engine.impl.last_report]_vars

\* report(True) was called on an engine whose last computation was an LDOS
C5_Witness ==
    /\ last.op = "report"
    /\ last.args.shortform
    /\ engine.impl.last_report.kind = "ldos"
    /\ last.ret.fields = <<engine.impl.last_report.moments>>

\* C6: a calc_greens call with i or j outside 0..N-1 raises InvalidIndex, returns
\* nothing and leaves the engine (its report, its cached bounds, its Lanczos
\* count) and everything else as before the call.
C6_InvalidIndexRaisedAtCall ==
    [][LET a == last'.args
           N == Dim(engine.impl.model)
       IN (/\ last'.op = "calc_greens"
           /\ calc_greens(a.i, a.j, a.energy, a.broadening)
           /\ ~(0 <= a.i /\ a.i < N /\ 0 <= a.j /\ a.j < N))
          => (/\ last'.raised = "InvalidIndex"
              /\ last'.ret = PyNone
              /\ engine' = engine
              /\ built' = built
              /\ units' = units)]_vars

\* calc_greens with i = N raised InvalidIndex on an engine that holds the report
\* of an earlier computation
C6_Witness ==
    /\ last.op = "calc_greens"
    /\ last.raised = "InvalidIndex"
    /\ last.args.i = Dim(engine.impl.model)
    /\ last.args.j = 0
    /\ engine.impl.last_report.kind # "none"

\* C7: a calc_ldos call that returns gives an LDOS whose energy is the caller's
\* energy array and whose values are as many as the energies, the k-th value
\* being the one for the k-th energy; a calc_greens call that returns gives an
\* array of the size of its energy array.
C7_ResultMatchesEnergy ==
    /\ (last.op = "calc_ldos" /\ last.raised = "") =>
          /\ last.ret.t = "LDOS"
          /\ last.ret.energy = last.args.energy
          /\ Len(last.ret.ldos) = Len(last.args.energy)
          /\ \A k \in 1..Len(last.ret.ldos) : last.ret.ldos[k].e = last.args.energy[k]
    /\ (last.op = "calc_greens" /\ last.raised = "") =>
          /\ Len(last.ret.values) = Len(last.args.energy)
          /\ \A k \in 1..Len(last.ret.values) : last.ret.values[k].e = last.args.energy[k]

\* calc_ldos returned for an energy array of two energies
C7_Witness ==
    /\ last.op = "calc_ldos"
    /\ last.raised = ""
    /\ Len(last.args.energy) = 2
    /\ Len(last.ret.ldos) = 2

---------------------------------------------------------------------------
(* Properties of the deferred units *)

Finished(u) == u.status \in {"done", "failed", "dropped"}

\* what calc_ldos on the engine gives for the k-th request passed to deferred_ldos
Sequential(k) ==
    impl_calc_ldos(engine.impl, issued[k].energy, issued[k].broadening,
                   issued[k].position, issued[k].sublattice)

\* C3: whatever the order in which the units ran and completed, the unit returned
\* for the k-th deferred_ldos request holds, once done, the values calc_ldos gives
\* for that request, and has failed only with the error calc_ldos raises for it.
C3_DeferredEqualsSequential ==
    /\ Len(units) = Len(issued)
    /\ \A k \in 1..Len(units) :
          /\ units[k].status = "done" =>
                /\ Sequential(k).raised = ""
                /\ units[k].result = Sequential(k).values
          /\ units[k].status = "failed" =>
                /\ Sequential(k).raised = units[k].error
                /\ units[k].result = <<>>

\* two different requests are both done, the second having completed first
C3_Witness ==
    /\ Len(units) >= 2
    /\ issued[1] # issued[2]
    /\ units[1].status = "done"
    /\ units[2].status = "done"
    /\ units[1].result # units[2].result
    /\ completed = <<2, 1>>

====
